---- MODULE Spec2Model ----
(***************************************************************************)
(* deeprank: the buried-surface-area feature (deeprank/features/BSA.py).   *)
(*                                                                         *)
(* One BSA instance is modelled: its attributes are the variables, its two *)
(* public methods get_structure and get_contact_residue_sasa are the       *)
(* actions.  The two collaborators the class calls are modelled by what    *)
(* they return: pdb2sql (an atom table with filtered queries and the       *)
(* contact residues of chains A and B under a distance cutoff) and         *)
(* freesasa (a per-atom accessible area for a set of atoms and the sum of  *)
(* the areas of a selection).                                              *)
(*                                                                         *)
(* Further specifications model the callers of the class (the __main__     *)
(* block and __compute_feature__) and the division of a data set into      *)
(* training, validation and test indices and into folds                    *)
(* (deeprank/learn/DeepRankConvNet_cuda.py).                               *)
(***************************************************************************)
EXTENDS Integers, Sequences, FiniteSets, TLC

(***************************************************************************)
(* Bounds of the model.                                                    *)
(***************************************************************************)
\* residues per chain in the input structures
MaxRes == 3
\* cutoffs passed to get_contact_residue_sasa are 0..MaxCutoff
MaxCutoff == 2
\* data sets of DeepRankConvNet hold 0..MaxData items
MaxData == 5
\* train_kfold is given k in 1..MaxFolds
MaxFolds == 3

(***************************************************************************)
(* Small helpers.                                                          *)
(***************************************************************************)
Max(a, b) == IF a >= b THEN a ELSE b

Range(s) == {s[i] : i \in 1..Len(s)}

\* a Python dict: a function; d[k] = v on it
EmptyDict == << >>

DictSet(d, k, v) == [x \in (DOMAIN d) \cup {k} |-> IF x = k THEN v ELSE d[x]]

(***************************************************************************)
(* Atom records and the input structures.                                  *)
(* An atom name is the sequence of its characters, so that atomName[0] of  *)
(* the source is name[1] here.                                             *)
(***************************************************************************)
CA == << "C", "A" >>
CB == << "C", "B" >>

Atom(name, resName, resSeq, chainID, xyz) ==
  [name |-> name, resName |-> resName, resSeq |-> resSeq,
   chainID |-> chainID, xyz |-> xyz]

\* the plane a chain lies in: A and B face each other, C lies behind A
ChainY(chain) == CASE chain = "A" -> 0 [] chain = "B" -> 1 [] OTHER -> -1

\* The kinds of residue of the input structures:
\*   ALA   alanine with CA and CB
\*   GLY   glycine, CA only
\*   GLY2  glycine with two records named CA (alternate locations)
\*   NOCB  alanine whose side chain is missing (CA only)
\*   ALT   alanine with two records named CB (alternate locations)
\*   INS   alanine followed by a serine with the same residue number
\*         (an insertion code, which the residue number does not carry)
\*   CLASH alanine whose CB lies on the CB position of the previous residue
SpecialKinds == {"GLY", "GLY2", "NOCB", "ALT", "INS", "CLASH"}

ResAtoms(chain, i, kind) ==
  LET y == ChainY(chain)
      ca == Atom(CA, "ALA", i, chain, << i, y, 0 >>)
      cb == Atom(CB, "ALA", i, chain, << i, y, 1 >>)
  IN CASE kind = "GLY"   -> << Atom(CA, "GLY", i, chain, << i, y, 0 >>) >>
       [] kind = "GLY2"  -> << Atom(CA, "GLY", i, chain, << i, y, 0 >>),
                               Atom(CA, "GLY", i, chain, << i, y, 2 >>) >>
       [] kind = "NOCB"  -> << ca >>
       [] kind = "ALT"   -> << ca, cb, Atom(CB, "ALA", i, chain, << i, y, 2 >>) >>
       [] kind = "INS"   -> << ca, cb,
                               Atom(CA, "SER", i, chain, << i, y, 2 >>),
                               Atom(CB, "SER", i, chain, << i, y, 3 >>) >>
       [] kind = "CLASH" -> << ca, Atom(CB, "ALA", i, chain, << i - 1, y, 1 >>) >>
       [] OTHER          -> << ca, cb >>

\* a chain of n residues numbered 1..n, residue p of kind k (p = 0: none)
RECURSIVE ChainAtoms(_, _, _, _)
ChainAtoms(chain, n, p, k) ==
  IF n = 0 THEN << >>
  ELSE ChainAtoms(chain, n - 1, p, k)
       \o ResAtoms(chain, n, IF n = p THEN k ELSE "ALA")

\* the input structures: chains A and B of up to MaxRes residues, with or
\* without a third chain C; residue number p of A and of B, where the chain
\* is that long, is of kind k, every other residue a plain alanine
PdbShapes ==
  {<< 0, "ALA" >>}
    \cup {<< p, k >> : p \in 1..MaxRes, k \in SpecialKinds}

PdbInput(nA, nB, nC, p, k) ==
  ChainAtoms("A", nA, p, k) \o ChainAtoms("B", nB, p, k)
    \o ChainAtoms("C", nC, 0, k)

PdbInputs ==
  {PdbInput(nA, nB, nC, s[1], s[2]) :
     nA \in 0..MaxRes, nB \in 0..MaxRes, nC \in 0..1, s \in PdbShapes}

\* the chain labels an instance is configured with
ChainConfigs == {<< "A", "B" >>, << "B", "A" >>, << "A", "C" >>}

\* pdb_data is a file name (str) or the records of the file (list of bytes)
PdbForms == {"str", "list"}

Cutoffs == 0..MaxCutoff

(***************************************************************************)
(* pdb2sql: the atom table and its queries.                                *)
(***************************************************************************)
\* sql.get('name,resName,resSeq,chainID,x,y,z'): every row, in table order
SqlGetAll(table) == table

\* sql.get('name,resName,resSeq,chainID,x,y,z', chainID=label)
SqlGetChain(table, label) ==
  LET OfChain(a) == a.chainID = label IN SelectSeq(table, OfChain)

\* sql.get('x,y,z', resSeq=r, chainID=c, name=n): the coordinates of the
\* matching rows, in table order
SqlGetXYZ(table, r, c, n) ==
  LET Match(a) == a.resSeq = r /\ a.chainID = c /\ a.name = n
      rows == SelectSeq(table, Match)
  IN [i \in 1..Len(rows) |-> rows[i].xyz]

Dist2(p, q) ==
  (p[1] - q[1]) * (p[1] - q[1]) + (p[2] - q[2]) * (p[2] - q[2])
    + (p[3] - q[3]) * (p[3] - q[3])

\* the residue key of an atom: (chainID, resSeq, resName)
ResKey(a) == << a.chainID, a.resSeq, a.resName >>

\* Python's order on the residue keys of one chain: resSeq, then resName
NameRank(n) == CASE n = "ALA" -> 1 [] n = "GLY" -> 2 [] OTHER -> 3

ResLess(r, s) == r[2] < s[2] \/ (r[2] = s[2] /\ NameRank(r[3]) < NameRank(s[3]))

RECURSIVE SortedRes(_)
SortedRes(S) ==
  IF S = {} THEN << >>
  ELSE LET m == CHOOSE r \in S : \A s \in S \ {r} : ResLess(r, s)
       IN << m >> \o SortedRes(S \ {m})

\* the residues of chain c1 that have an atom within the cutoff of an atom of
\* chain c2, each once, sorted
ContactList(table, cutoff, c1, c2) ==
  SortedRes({ResKey(a) : a \in
     {x \in Range(table) : x.chainID = c1 /\
        \E b \in Range(table) :
           b.chainID = c2 /\ Dist2(x.xyz, b.xyz) <= cutoff * cutoff}})

\* sql.get_contact_residues(cutoff=cutoff): called without chain labels, so
\* for the chains 'A' and 'B'; a dict keyed by the two labels
GetContactResidues(table, cutoff) ==
  [c \in {"A", "B"} |->
     ContactList(table, cutoff, c, IF c = "A" THEN "B" ELSE "A")]

(***************************************************************************)
(* freesasa: structures, the area calculation and the selection.           *)
(***************************************************************************)
\* '{:>2}'.format(atomName[0]): the first character, right-aligned in two
FormatName(name) == << " ", name[1] >>

\* Structure() filled by addAtom(atomName, ...) from the rows of a query
StructureFromRows(rows) ==
  [i \in 1..Len(rows) |->
     Atom(FormatName(rows[i].name), rows[i].resName, rows[i].resSeq,
          rows[i].chainID, rows[i].xyz)]

\* freesasa.Structure(filename): every atom of the file under its own name
StructureFromFile(table) == table

\* the area of an atom with nothing around it: the classifier knows the
\* atom names of the file; a name it does not know gets the smaller radius
\* guessed from the element
FreeArea(name) == IF name[1] = " " THEN 4 ELSE 5

\* the accessible area of atom i of structure S: what its neighbours leave
AtomArea(S, i) ==
  Max(0, FreeArea(S[i].name)
         - Cardinality({j \in 1..Len(S) :
              j # i /\ Dist2(S[i].xyz, S[j].xyz) <= 1}))

\* freesasa.calc(structure): the area of each atom
Calc(S) == [i \in 1..Len(S) |-> AtomArea(S, i)]

RECURSIVE SumOver(_, _)
SumOver(result, I) ==
  IF I = {} THEN 0
  ELSE LET i == CHOOSE j \in I : TRUE IN result[i] + SumOver(result, I \ {i})

\* selectArea(('res, (resi r) and (chain c)',), structure, result)['res']
SelectAreaResiChain(S, result, r, c) ==
  SumOver(result, {i \in 1..Len(S) : S[i].resSeq = r /\ S[i].chainID = c})

\* selectArea(('res, resi r',), structure, result)['res']
SelectAreaResi(S, result, r) ==
  SumOver(result, {i \in 1..Len(S) : S[i].resSeq = r})

(***************************************************************************)
(* The BSA instance.                                                       *)
(***************************************************************************)
VARIABLES
  pdb_form,         \* the form of self.pdb_data: "str" or "list"
  sql,              \* self.sql: the atom table of the structure
  chains_label,     \* self.chains_label: << chainA, chainB >>
  attrs,            \* the attributes the two methods have set so far
  complex,          \* self.complex
  result_complex,   \* self.result_complex
  chains,           \* self.chains: label -> structure
  result_chains,    \* self.result_chains: label -> result
  bsa_data,         \* self.bsa_data: residue key -> [bsa]
  bsa_data_xyz,     \* self.bsa_data_xyz: (chain, x, y, z) -> [bsa]
  feature_data,     \* self.feature_data: feature name -> dict
  feature_data_xyz, \* self.feature_data_xyz: feature name -> dict
  exc,              \* what the last get_contact_residue_sasa raised
  warned,           \* the residue counts that call warned about
  ctc_res,          \* the merged contact list of that call
  cutoff_used,      \* the cutoff that call was given: << >> before it
  calcs             \* the freesasa.calc calls of the last get_structure

\* the callers of the class: __compute_feature__ and the __main__ block
VARIABLES
  pc,               \* the statement the caller is about to run
  closed,           \* whether sql.close() was called on self.sql
  featgrp,          \* the group export_dataxyz_hdf5 writes into
  featgrp_raw,      \* the group export_data_hdf5 writes into
  runs              \* what each instance run so far ended with

\* DeepRankConvNet.train_kfold: the division of the data set
VARIABLES
  ntot,             \* len(self.data_set)
  tpc,              \* the statement train_kfold is about to run
  ntrain,           \* int(float(ntot)*divide_set[0])
  nvalid,           \* int(float(ntot)*divide_set[1])
  index_train,      \* what _divide_dataset returned
  index_valid,
  index_test,
  kfold,            \* the k given to _kfold_index: << >> before the call
  indexes_train,    \* what _kfold_index returned
  indexes_valid

bsa_vars == << pdb_form, sql, chains_label, attrs, complex, result_complex,
               chains, result_chains, bsa_data, bsa_data_xyz, feature_data,
               feature_data_xyz, exc, warned, ctc_res, cutoff_used, calcs >>

caller_vars == << pc, closed, featgrp, featgrp_raw, runs >>

train_vars == << ntot, tpc, ntrain, nvalid, index_train, index_valid,
                 index_test, kfold, indexes_train, indexes_valid >>

vars == << bsa_vars, caller_vars, train_vars >>

NoError == [type |-> "none"]

StructureAttrs == {"complex", "result_complex", "chains", "result_chains"}

BsaAttrs == {"bsa_data", "bsa_data_xyz"}

\* BSA.__init__
Init ==
  /\ pdb_form \in PdbForms
  /\ sql \in PdbInputs
  /\ chains_label \in ChainConfigs
  /\ attrs = {}
  /\ complex = << >>
  /\ result_complex = << >>
  /\ chains = EmptyDict
  /\ result_chains = EmptyDict
  /\ bsa_data = EmptyDict
  /\ bsa_data_xyz = EmptyDict
  /\ feature_data = EmptyDict
  /\ feature_data_xyz = EmptyDict
  /\ exc = NoError
  /\ warned = {}
  /\ ctc_res = << >>
  /\ cutoff_used = << >>
  /\ calcs = << >>

\* a get_structure that keeps only the atoms of the configured chains
BuildComplexConfigured(form, table) ==
  LET Configured(a) == a.chainID \in Range(chains_label)
      rows == SelectSeq(table, Configured)
  IN IF form = "str" THEN rows ELSE StructureFromRows(rows)

\* self.complex of get_structure, for the two forms of pdb_data
BuildComplex(form, table) ==
  IF form = "str" THEN StructureFromFile(table)
  ELSE StructureFromRows(SqlGetAll(table))

\* self.chains[label] of get_structure
BuildChain(table, label) == StructureFromRows(SqlGetChain(table, label))

\* BSA.get_structure
get_structure ==
  /\ complex' = BuildComplex(pdb_form, sql)
  /\ result_complex' = Calc(complex')
  /\ chains' = [l \in Range(chains_label) |-> BuildChain(sql, l)]
  /\ result_chains' = [l \in Range(chains_label) |-> Calc(chains'[l])]
  /\ calcs' = << "complex" >>
                 \o [i \in 1..Len(chains_label) |-> chains_label[i]]
  /\ attrs' = attrs \cup StructureAttrs
  /\ UNCHANGED << pdb_form, sql, chains_label, bsa_data, bsa_data_xyz,
                  feature_data, feature_data_xyz, exc, warned, ctc_res,
                  cutoff_used >>

\* an instance whose attributes all exist from the start
HasAttrAlways(name) == TRUE

\* whether the instance has the attribute: reading self.complex raises
\* AttributeError before get_structure has set it
HasAttr(name) == name \in attrs

\* {'A': 0, 'B': 1}[res[0]]
ChainIndex(label) == CASE label = "A" -> 0 [] label = "B" -> 1

\* an anchor that is CA for every residue
AnchorNameAlwaysCA(resName) == CA

\* atcenter: 'CB', or 'CA' if res[2] == 'GLY'
AnchorName(resName) == IF resName = "GLY" THEN CA ELSE CB

\* a buried area clamped at zero
ResidueBSAClamped(res) ==
  Max(0, SelectAreaResi(chains[res[1]], result_chains[res[1]], res[2])
         - SelectAreaResiChain(complex, result_complex, res[2], res[1]))

\* a buried area from an engine whose areas drift from one run to the next
ResidueBSADrifting(res) ==
  SelectAreaResi(chains[res[1]], result_chains[res[1]], res[2])
    - SelectAreaResiChain(complex, result_complex, res[2], res[1])
    + Len(runs)

\* asa_unbound - asa_complex of one contact residue
ResidueBSA(res) ==
  LET asa_complex ==
        SelectAreaResiChain(complex, result_complex, res[2], res[1])
      asa_unbound ==
        SelectAreaResi(chains[res[1]], result_chains[res[1]], res[2])
  IN asa_unbound - asa_complex

\* tuple([chain] + xyz), xyz the first row of the anchor query
AnchorKey(res, rows) == << ChainIndex(res[1]) >> \o rows[1]

\* a loop that skips the contact residues whose anchor atom is missing
RECURSIVE ResidueLoopSkip(_, _, _)
ResidueLoopSkip(todo, d, dx) ==
  IF todo = << >> THEN [bsa_data |-> d, bsa_data_xyz |-> dx, exc |-> NoError]
  ELSE
    LET res == Head(todo)
        rows == SqlGetXYZ(sql, res[2], res[1], AnchorName(res[3]))
        bsa == ResidueBSA(res)
        Raise(type) == [bsa_data |-> d, bsa_data_xyz |-> dx,
                        exc |-> [type |-> type]]
    IN IF ~HasAttr("complex") THEN Raise("AttributeError")
       ELSE IF res[1] \notin DOMAIN chains THEN Raise("KeyError")
       ELSE IF rows = << >> THEN ResidueLoopSkip(Tail(todo), d, dx)
       ELSE ResidueLoopSkip(Tail(todo),
                            DictSet(d, res, << bsa >>),
                            DictSet(dx, AnchorKey(res, rows), << bsa >>))

\* the loop over the contact residues, from the dicts d and dx on: the two
\* dicts it leaves, and the exception that ended it, if any
RECURSIVE ResidueLoop(_, _, _)
ResidueLoop(todo, d, dx) ==
  IF todo = << >> THEN [bsa_data |-> d, bsa_data_xyz |-> dx, exc |-> NoError]
  ELSE
    LET res == Head(todo)
        rows == SqlGetXYZ(sql, res[2], res[1], AnchorName(res[3]))
        bsa == ResidueBSA(res)
        Raise(type) == [bsa_data |-> d, bsa_data_xyz |-> dx,
                        exc |-> [type |-> type]]
    IN IF ~HasAttr("complex") THEN Raise("AttributeError")
       ELSE IF res[1] \notin DOMAIN chains THEN Raise("KeyError")
       ELSE IF rows = << >> THEN Raise("IndexError")
       ELSE ResidueLoop(Tail(todo),
                        DictSet(d, res, << bsa >>),
                        DictSet(dx, AnchorKey(res, rows), << bsa >>))

\* ctc_res["A"] + ctc_res["B"]
MergedContacts(table, cutoff) ==
  LET ctc == GetContactResidues(table, cutoff) IN ctc["A"] \o ctc["B"]

\* an error message that names the default cutoff of the method
NoInterfaceErrorDefault(cutoff) == [type |-> "ValueError", cutoff |-> MaxCutoff]

\* ValueError(f"No interface residue found with the cutoff {cutoff}...")
NoInterfaceError(cutoff) == [type |-> "ValueError", cutoff |-> cutoff]

\* a threshold that includes 5
SmallInterfaceUpTo5(total_res) == total_res <= 5

\* the residue counts that get the small-interface warning
SmallInterface(total_res) == total_res < 5

\* a get_contact_residue_sasa that builds the structures itself before the
\* loop, whether they exist or not
get_contact_residue_sasa_building(cutoff) ==
  /\ attrs' = attrs \cup StructureAttrs \cup BsaAttrs
  /\ complex' = StructureFromRows(SqlGetAll(sql))
  /\ result_complex' = Calc(complex')
  /\ chains' = [l \in {"A", "B"} |-> BuildChain(sql, l)]
  /\ result_chains' = [l \in {"A", "B"} |-> Calc(chains'[l])]
  /\ cutoff_used' = << cutoff >>
  /\ ctc_res' = MergedContacts(sql, cutoff)
  /\ exc' = IF Len(ctc_res') = 0 THEN NoInterfaceError(cutoff) ELSE NoError
  /\ warned' = {}
  /\ bsa_data' = EmptyDict
  /\ bsa_data_xyz' = EmptyDict
  /\ UNCHANGED << pdb_form, sql, chains_label, calcs, feature_data,
                  feature_data_xyz >>

\* BSA.get_contact_residue_sasa(cutoff)
get_contact_residue_sasa(cutoff) ==
  /\ attrs' = attrs \cup BsaAttrs
  /\ cutoff_used' = << cutoff >>
  /\ ctc_res' = MergedContacts(sql, cutoff)
  /\ IF Len(ctc_res') = 0
     THEN /\ exc' = NoInterfaceError(cutoff)
          /\ warned' = {}
          /\ bsa_data' = EmptyDict
          /\ bsa_data_xyz' = EmptyDict
          /\ UNCHANGED << feature_data, feature_data_xyz >>
     ELSE LET out == ResidueLoop(ctc_res', EmptyDict, EmptyDict)
          IN /\ warned' = IF SmallInterface(Len(ctc_res'))
                            THEN {Len(ctc_res')} ELSE {}
             /\ bsa_data' = out.bsa_data
             /\ bsa_data_xyz' = out.bsa_data_xyz
             /\ exc' = out.exc
             /\ IF out.exc = NoError
                THEN /\ feature_data' = DictSet(feature_data, "bsa", bsa_data')
                     /\ feature_data_xyz' =
                          DictSet(feature_data_xyz, "bsa", bsa_data_xyz')
                ELSE UNCHANGED << feature_data, feature_data_xyz >>
  /\ UNCHANGED << pdb_form, sql, chains_label, complex, result_complex,
                  chains, result_chains, calcs >>

\* no caller is running: the two methods are called in any order
NoCaller ==
  /\ pc = "none"
  /\ closed = FALSE
  /\ featgrp = EmptyDict
  /\ featgrp_raw = EmptyDict
  /\ runs = << >>

\* no training is running
NoTraining ==
  /\ ntot = 0
  /\ tpc = "none"
  /\ ntrain = 0
  /\ nvalid = 0
  /\ index_train = << >>
  /\ index_valid = << >>
  /\ index_test = << >>
  /\ kfold = << >>
  /\ indexes_train = << >>
  /\ indexes_valid = << >>

Next ==
  \/ get_structure /\ UNCHANGED << caller_vars, train_vars >>
  \/ \E cutoff \in Cutoffs :
       get_contact_residue_sasa(cutoff) /\ UNCHANGED << caller_vars, train_vars >>

\* one instance after BSA.__init__, its methods called from outside
InitInstance == Init /\ NoCaller /\ NoTraining

Spec == InitInstance /\ [][Next]_vars

(***************************************************************************)
(* The __main__ block: bsa = BSA(pdb_file); bsa.get_structure();           *)
(* bsa.get_contact_residue_sasa().  It is run twice on the same structure, *)
(* with the same chain labels and the same cutoff, each time on a new      *)
(* instance; runs keeps what each instance ended with.                     *)
(***************************************************************************)
InitMain ==
  /\ Init
  /\ pc = "get_structure"
  /\ closed = FALSE
  /\ featgrp = EmptyDict
  /\ featgrp_raw = EmptyDict
  /\ runs = << >>
  /\ NoTraining

main_get_structure ==
  /\ pc = "get_structure"
  /\ get_structure
  /\ pc' = "get_contact_residue_sasa"
  /\ UNCHANGED << closed, featgrp, featgrp_raw, runs, train_vars >>

main_get_contact_residue_sasa(cutoff) ==
  /\ pc = "get_contact_residue_sasa"
  /\ runs # << >> => cutoff = runs[1].cutoff
  /\ get_contact_residue_sasa(cutoff)
  /\ runs' = Append(runs, [cutoff |-> cutoff,
                            exc |-> exc',
                            bsa_data |-> bsa_data',
                            bsa_data_xyz |-> bsa_data_xyz',
                            feature_data |-> feature_data',
                            feature_data_xyz |-> feature_data_xyz'])
  /\ pc' = "BSA"
  /\ UNCHANGED << closed, featgrp, featgrp_raw, train_vars >>

\* BSA(pdb_data, chainA, chainB) again: a new instance of the same arguments
main_BSA ==
  /\ pc = "BSA"
  /\ Len(runs) = 1
  /\ attrs' = {}
  /\ complex' = << >>
  /\ result_complex' = << >>
  /\ chains' = EmptyDict
  /\ result_chains' = EmptyDict
  /\ bsa_data' = EmptyDict
  /\ bsa_data_xyz' = EmptyDict
  /\ feature_data' = EmptyDict
  /\ feature_data_xyz' = EmptyDict
  /\ exc' = NoError
  /\ warned' = {}
  /\ ctc_res' = << >>
  /\ cutoff_used' = << >>
  /\ calcs' = << >>
  /\ pc' = "get_structure"
  /\ UNCHANGED << pdb_form, sql, chains_label, closed, featgrp, featgrp_raw,
                  runs, train_vars >>

NextMain ==
  \/ main_get_structure
  \/ \E cutoff \in Cutoffs : main_get_contact_residue_sasa(cutoff)
  \/ main_BSA

SpecMain == InitMain /\ [][NextMain]_vars

(***************************************************************************)
(* __compute_feature__(pdb_data, featgrp, featgrp_raw): a BSA of the       *)
(* default chain labels, get_structure, get_contact_residue_sasa of the    *)
(* default cutoff, the two exports, sql.close().  An exception of a call   *)
(* leaves the function at once: pc = "raised".                             *)
(***************************************************************************)
\* cutoff=5.5 of get_contact_residue_sasa, in the unit of length of the
\* model (5.5 Angstrom)
DefaultCutoff == 1

\* bsa = BSA(pdb_data)
InitCompute ==
  /\ Init
  /\ chains_label = << "A", "B" >>
  /\ pc = "get_structure"
  /\ closed = FALSE
  /\ featgrp = EmptyDict
  /\ featgrp_raw = EmptyDict
  /\ runs = << >>
  /\ NoTraining

compute_get_structure ==
  /\ pc = "get_structure"
  /\ get_structure
  /\ pc' = "get_contact_residue_sasa"
  /\ UNCHANGED << closed, featgrp, featgrp_raw, runs, train_vars >>

compute_get_contact_residue_sasa ==
  /\ pc = "get_contact_residue_sasa"
  /\ get_contact_residue_sasa(DefaultCutoff)
  /\ pc' = IF exc' = NoError THEN "export_dataxyz_hdf5" ELSE "raised"
  /\ UNCHANGED << closed, featgrp, featgrp_raw, runs, train_vars >>

\* bsa.export_dataxyz_hdf5(featgrp): the feature store takes the anchor-key
\* features, or the write fails
export_dataxyz_hdf5 ==
  /\ pc = "export_dataxyz_hdf5"
  /\ \/ featgrp' = feature_data_xyz /\ pc' = "export_data_hdf5"
     \/ featgrp' = featgrp /\ pc' = "raised"
  /\ UNCHANGED << bsa_vars, closed, featgrp_raw, runs, train_vars >>

\* bsa.export_data_hdf5(featgrp_raw): likewise, the residue-key features
export_data_hdf5 ==
  /\ pc = "export_data_hdf5"
  /\ \/ featgrp_raw' = feature_data /\ pc' = "close"
     \/ featgrp_raw' = featgrp_raw /\ pc' = "raised"
  /\ UNCHANGED << bsa_vars, closed, featgrp, runs, train_vars >>

\* bsa.sql.close()
close ==
  /\ pc = "close"
  /\ closed' = TRUE
  /\ pc' = "done"
  /\ UNCHANGED << bsa_vars, featgrp, featgrp_raw, runs, train_vars >>

NextCompute ==
  \/ compute_get_structure
  \/ compute_get_contact_residue_sasa
  \/ export_dataxyz_hdf5
  \/ export_data_hdf5
  \/ close

SpecCompute == InitCompute /\ [][NextCompute]_vars

(***************************************************************************)
(* DeepRankConvNet.train_kfold: _divide_dataset(divide_set, preshuffle),   *)
(* then _kfold_index(k, index_train.tolist() + index_valid.tolist()).      *)
(***************************************************************************)
Min(a, b) == IF a <= b THEN a ELSE b

\* the entries of divide_set: fractions << p, q >> = p/q that a float holds
\* exactly, so that float(ntot)*(p/q) is the exact product
Fractions == {<< 0, 1 >>, << 1, 4 >>, << 1, 2 >>, << 3, 4 >>, << 1, 1 >>,
              << 5, 4 >>}

DivideSets == Fractions \X Fractions \X Fractions

\* int(float(n)*f)
IntOfProduct(n, f) == (n * f[1]) \div f[2]

\* np.arange(n)
Arange(n) == [i \in 1..n |-> i - 1]

\* what np.random.shuffle can make of np.arange(n): every order
Shuffles(n) ==
  {p \in [1..n -> 0..(n - 1)] : \A i, j \in 1..n : p[i] = p[j] => i = j}

\* a slice that takes the element at its end as well
SliceInclusive(s, a, b) == SubSeq(s, a + 1, Min(b + 1, Len(s)))

\* s[a:b] of Python for 0 <= a and 0 <= b
Slice(s, a, b) == SubSeq(s, a + 1, Min(b, Len(s)))

\* no BSA instance takes part in the training: one of an empty structure
NoInstance ==
  /\ Init
  /\ pdb_form = "str"
  /\ sql = << >>
  /\ chains_label = << "A", "B" >>

InitTrain ==
  /\ NoInstance
  /\ NoCaller
  /\ ntot \in 0..MaxData
  /\ tpc = "_divide_dataset"
  /\ ntrain = 0
  /\ nvalid = 0
  /\ index_train = << >>
  /\ index_valid = << >>
  /\ index_test = << >>
  /\ kfold = << >>
  /\ indexes_train = << >>
  /\ indexes_valid = << >>

\* DeepRankConvNet._divide_dataset(divide_set, preshuffle)
_divide_dataset(divide_set, preshuffle) ==
  /\ tpc = "_divide_dataset"
  /\ \E ind \in (IF preshuffle THEN Shuffles(ntot) ELSE {Arange(ntot)}) :
       /\ ntrain' = IntOfProduct(ntot, divide_set[1])
       /\ nvalid' = IntOfProduct(ntot, divide_set[2])
       /\ index_train' = Slice(ind, 0, ntrain')
       /\ index_valid' = Slice(ind, ntrain', ntrain' + nvalid')
       /\ index_test' = Slice(ind, ntrain' + nvalid', Len(ind))
  /\ tpc' = "_kfold_index"
  /\ UNCHANGED << ntot, kfold, indexes_train, indexes_valid, bsa_vars,
                  caller_vars >>

\* fold_index[ik] = list(range(ik*subsize, (ik+1)*subsize)), ik from 0
FoldIndex(ik, subsize) == [j \in 1..subsize |-> ik * subsize + j - 1]

\* [index_train_valid[j] for j in fold_index[ik]]
FoldOf(index_train_valid, ik, subsize) ==
  [j \in 1..subsize |-> index_train_valid[FoldIndex(ik, subsize)[j] + 1]]

\* index_tmp of round ik: the folds iik # ik, from fold iik on
RECURSIVE IndexTmp(_, _, _, _, _)
IndexTmp(index_train_valid, k, ik, iik, subsize) ==
  IF iik >= k THEN << >>
  ELSE (IF iik # ik THEN FoldOf(index_train_valid, iik, subsize) ELSE << >>)
         \o IndexTmp(index_train_valid, k, ik, iik + 1, subsize)

\* DeepRankConvNet._kfold_index(k, index_train_valid)
_kfold_index(k) ==
  /\ tpc = "_kfold_index"
  /\ LET index_train_valid == index_train \o index_valid
         subsize == Len(index_train_valid) \div k
     IN /\ indexes_train' =
             [r \in 1..k |-> IndexTmp(index_train_valid, k, r - 1, 0, subsize)]
        /\ indexes_valid' =
             [r \in 1..k |-> FoldOf(index_train_valid, r - 1, subsize)]
  /\ kfold' = << k >>
  /\ tpc' = "done"
  /\ UNCHANGED << ntot, ntrain, nvalid, index_train, index_valid, index_test,
                  bsa_vars, caller_vars >>

NextTrain ==
  \/ \E preshuffle \in BOOLEAN : \E divide_set \in DivideSets :
       _divide_dataset(divide_set, preshuffle)
  \/ \E k \in 1..MaxFolds : _kfold_index(k)

SpecTrain == InitTrain /\ [][NextTrain]_vars

(***************************************************************************)
(* The properties.                                                         *)
(***************************************************************************)
\* the last get_contact_residue_sasa ran its loop to the end
Completed == "bsa_data" \in attrs /\ exc = NoError

\* the rows of the table that an anchor lookup for res matches: those of its
\* chain and residue number named CA for a glycine, CB otherwise
AnchorRows(res) ==
  {i \in 1..Len(sql) :
     /\ sql[i].chainID = res[1]
     /\ sql[i].resSeq = res[2]
     /\ sql[i].name = IF res[3] = "GLY" THEN << "C", "A" >> ELSE << "C", "B" >>}

\* the coordinates of the first of them in table order
FirstAnchor(res) ==
  sql[CHOOSE i \in AnchorRows(res) : \A j \in AnchorRows(res) : i <= j].xyz

\* no two atoms of the structure lie on the same position
DistinctPositions ==
  \A i, j \in 1..Len(sql) : i # j => sql[i].xyz # sql[j].xyz

\* C1: whenever get_contact_residue_sasa completes on a structure with at
\* least 5 contact residues, the residue-key mapping and the anchor-key
\* mapping each hold exactly one entry per contact residue (here for the
\* default chain labels and a structure whose atoms lie on distinct
\* positions).
C1_OneEntryPerResidue ==
  (Completed /\ Len(ctc_res) >= 5 /\ chains_label = << "A", "B" >>
     /\ DistinctPositions) =>
     /\ Cardinality(DOMAIN bsa_data) = Len(ctc_res)
     /\ Cardinality(DOMAIN bsa_data_xyz) = Len(ctc_res)

\* C2: after get_contact_residue_sasa completes, the value under the residue
\* key of every contact residue equals the value under its anchor key (here
\* for the default chain labels).
C2_SameValueUnderBothKeys ==
  (Completed /\ chains_label = << "A", "B" >>) =>
     \A res \in Range(ctc_res) :
        LET key == << IF res[1] = "A" THEN 0 ELSE 1 >> \o FirstAnchor(res)
        IN /\ res \in DOMAIN bsa_data
           /\ key \in DOMAIN bsa_data_xyz
           /\ bsa_data[res] = bsa_data_xyz[key]

\* the last call found no contact residue for the cutoff it was given
NoInterface ==
  /\ cutoff_used # << >>
  /\ ContactList(sql, cutoff_used[1], "A", "B") = << >>
  /\ ContactList(sql, cutoff_used[1], "B", "A") = << >>

\* C3: when the merged contact list is empty for the given cutoff, the call
\* fails with the no-interface error carrying that cutoff (and the error is
\* raised in no other case), the contact list is not computed again for
\* another cutoff, and the call publishes no 'bsa' entry in feature_data or
\* feature_data_xyz: an entry there is never the empty mapping of this call.
C3_NoInterfaceError ==
  /\ NoInterface =>
        /\ exc = [type |-> "ValueError", cutoff |-> cutoff_used[1]]
        /\ ctc_res = << >>
        /\ bsa_data = EmptyDict
        /\ bsa_data_xyz = EmptyDict
  /\ exc.type = "ValueError" =>
        /\ NoInterface
        /\ "bsa" \in DOMAIN feature_data => feature_data["bsa"] # bsa_data
        /\ "bsa" \in DOMAIN feature_data_xyz
             => feature_data_xyz["bsa"] # bsa_data_xyz

\* the no-interface error of a first call on built structures: nothing is
\* published
C3_Witness ==
  /\ exc.type = "ValueError"
  /\ exc.cutoff = 1
  /\ cutoff_used = << 1 >>
  /\ "complex" \in attrs
  /\ Len(sql) > 0
  /\ "bsa" \notin DOMAIN feature_data
  /\ "bsa" \notin DOMAIN feature_data_xyz

\* the number of contact residues the last call found
TotalRes == Len(ctc_res)

\* the anchor keys of the contact residues whose anchor atom exists
AnchorKeys ==
  {<< IF res[1] = "A" THEN 0 ELSE 1 >> \o FirstAnchor(res) :
     res \in {r \in Range(ctc_res) : AnchorRows(r) # {}}}

\* the contact residues whose anchor atom exists have distinct anchor keys
DistinctAnchors ==
  Cardinality(AnchorKeys)
    = Cardinality({r \in Range(ctc_res) : AnchorRows(r) # {}})

\* C4 as stated: the warning is emitted exactly for 1 <= n <= 4, and then the
\* calculation does not abort and ends with n entries in each mapping (for a
\* call made after get_structure with the default chain labels, on contact
\* residues with distinct anchor positions).
C4_WarnedNeverAborts ==
  ("bsa_data" \in attrs /\ exc.type # "AttributeError"
     /\ chains_label = << "A", "B" >> /\ DistinctAnchors) =>
     /\ (warned # {}) <=> (1 <= TotalRes /\ TotalRes <= 4)
     /\ warned # {} =>
          /\ exc = NoError
          /\ Cardinality(DOMAIN bsa_data) = TotalRes
          /\ Cardinality(DOMAIN bsa_data_xyz) = TotalRes

\* C4: the warning is emitted exactly when the number n of contact residues
\* satisfies 1 <= n <= 4, it names n, and it is not the no-interface error;
\* when the loop that follows it completes, the residue-key mapping holds n
\* entries and the anchor-key mapping one entry per distinct anchor key.
C4_SparseWarning ==
  "bsa_data" \in attrs =>
     /\ (warned # {}) <=> (1 <= TotalRes /\ TotalRes <= 4)
     /\ warned \subseteq {TotalRes}
     /\ warned # {} => exc.type # "ValueError"
     /\ (warned # {} /\ exc = NoError) =>
          /\ Cardinality(DOMAIN bsa_data) = TotalRes
          /\ DOMAIN bsa_data_xyz = AnchorKeys
          /\ (Cardinality(AnchorKeys) = TotalRes
                => Cardinality(DOMAIN bsa_data_xyz) = TotalRes)

\* three contact residues: the warning, and three entries in each mapping
C4_Witness ==
  /\ warned = {3}
  /\ exc = NoError
  /\ Cardinality(DOMAIN bsa_data) = 3
  /\ Cardinality(DOMAIN bsa_data_xyz) = 3
  /\ feature_data = [bsa |-> bsa_data]

\* the indices of the atoms of structure S with residue number r (and, with
\* a chain given, of that chain)
AtomsOfResidue(S, r) == {i \in 1..Len(S) : S[i].resSeq = r}

AtomsOfChainResidue(S, r, c) == {i \in AtomsOfResidue(S, r) : S[i].chainID = c}

\* C5: for every recorded contact residue the value is exactly the area of
\* its residue number in the isolated structure of its own chain minus the
\* area of its (chain, residue number) in the complex, by the cached
\* results; it is not clamped, so it is negative whenever the isolated area
\* is the smaller one.
C5_BsaIsDifference ==
  \A res \in DOMAIN bsa_data :
     LET iso == SumOver(result_chains[res[1]],
                        AtomsOfResidue(chains[res[1]], res[2]))
         cpx == SumOver(result_complex,
                        AtomsOfChainResidue(complex, res[2], res[1]))
     IN /\ bsa_data[res] = << iso - cpx >>
        /\ iso < cpx => bsa_data[res][1] < 0

\* a completed calculation that recorded a negative value
C5_Witness ==
  /\ Completed
  /\ \E res \in DOMAIN bsa_data : bsa_data[res][1] < 0
  /\ \E res \in DOMAIN bsa_data : bsa_data[res][1] > 0

C7_ConfiguredChains ==
  "bsa_data" \in attrs =>
     /\ \A res \in DOMAIN bsa_data : res[1] \in Range(chains_label)
     /\ Completed =>
          DOMAIN bsa_data_xyz =
            {<< IF res[1] = chains_label[1] THEN 0 ELSE 1 >> \o FirstAnchor(res) :
               res \in Range(ctc_res)}

\* the contact residues of the last call that have no anchor atom
NoAnchor == {res \in Range(ctc_res) : AnchorRows(res) = {}}

\* the first k contact residues of the last call
Processed(k) == {ctc_res[i] : i \in 1..k}

\* C8 as stated: after a calculation that failed on a missing anchor atom,
\* neither mapping holds entries for part of the contact residues (default
\* chain labels).
C8_NothingAfterFailure ==
  (exc.type = "IndexError" /\ chains_label = << "A", "B" >>) =>
     /\ bsa_data = EmptyDict
     /\ bsa_data_xyz = EmptyDict

\* C8: a contact residue without its anchor atom makes the calculation fail
\* rather than skip it: the loop stops at the first residue it cannot
\* process, and the entries of the residues before it stay in bsa_data and
\* bsa_data_xyz.  What is published under 'bsa' in feature_data and
\* feature_data_xyz is never partial: it is the complete pair of mappings of
\* a call that processed its whole contact list.
C8_FailsWithoutPublishing ==
  /\ ("bsa_data" \in attrs /\ NoAnchor # {}) =>
        /\ exc # NoError
        /\ \E k \in 0..(TotalRes - 1) :
              /\ DOMAIN bsa_data = Processed(k)
              /\ Processed(k) \cap NoAnchor = {}
  /\ exc.type = "IndexError" => NoAnchor # {}
  /\ ("bsa" \in DOMAIN feature_data) <=> ("bsa" \in DOMAIN feature_data_xyz)
  /\ "bsa" \in DOMAIN feature_data =>
        \E c \in Cutoffs :
           LET full == ContactList(sql, c, "A", "B") \o ContactList(sql, c, "B", "A")
           IN /\ full # << >>
              /\ DOMAIN feature_data["bsa"] = Range(full)
              /\ DOMAIN feature_data_xyz["bsa"] =
                   {<< IF res[1] = "A" THEN 0 ELSE 1 >> \o FirstAnchor(res) :
                      res \in Range(full)}

\* a calculation that failed on the second contact residue or later: entries
\* of the residues before it are left, nothing is published
C8_Witness ==
  /\ exc.type = "IndexError"
  /\ chains_label = << "A", "B" >>
  /\ bsa_data # EmptyDict
  /\ bsa_data_xyz # EmptyDict
  /\ "bsa" \notin DOMAIN feature_data
  /\ "bsa" \notin DOMAIN feature_data_xyz

\* the three states of the calculator
Uninitialized == "complex" \notin attrs

FeaturesComputed == "bsa" \in DOMAIN feature_data

StructuresBuilt == "complex" \in attrs /\ ~FeaturesComputed

\* C9 as stated: get_structure runs only on an uninitialized instance, and a
\* get_contact_residue_sasa call runs to its end only on an instance whose
\* structures are built and whose features are not computed yet.
C9_SingleUse ==
  [][/\ get_structure => Uninitialized
     /\ \A cutoff \in Cutoffs :
          (get_contact_residue_sasa(cutoff) /\ exc' = NoError)
            => StructuresBuilt]_vars

\* C9: the features are computed only on an instance whose structures are
\* built: a get_contact_residue_sasa call made before get_structure raises
\* (the no-interface error, or AttributeError at the first contact residue)
\* and records and publishes nothing.  Nothing else is enforced: the four
\* structure attributes are set together, and either method can be called
\* again on the same instance.
C9_FeaturesNeedStructures ==
  /\ FeaturesComputed => "complex" \in attrs
  /\ ("bsa_data" \in attrs /\ Uninitialized) =>
        /\ exc.type \in {"ValueError", "AttributeError"}
        /\ exc.type = "ValueError" <=> ctc_res = << >>
        /\ bsa_data = EmptyDict
        /\ bsa_data_xyz = EmptyDict
        /\ feature_data = EmptyDict
        /\ feature_data_xyz = EmptyDict
  /\ attrs \cap StructureAttrs \in {{}, StructureAttrs}

\* a call made before get_structure on a structure with contact residues
C9_Witness ==
  /\ Uninitialized
  /\ "bsa_data" \in attrs
  /\ exc.type = "AttributeError"
  /\ TotalRes >= 5

\* the atoms of a structure, without their names
Placed(S) ==
  {<< S[i].resName, S[i].resSeq, S[i].chainID, S[i].xyz >> : i \in 1..Len(S)}

\* the rows of the table that belong to chain l
RowsOfChain(l) == {i \in 1..Len(sql) : sql[i].chainID = l}

\* C10 as stated: after get_structure the complex holds exactly the atoms of
\* the two configured chains, each per-chain set exactly the atoms of its
\* chain, and one SASA result is computed for each of the three sets.
C10_ComplexIsTwoChains ==
  "complex" \in attrs =>
     /\ Placed(complex) =
          {<< sql[i].resName, sql[i].resSeq, sql[i].chainID, sql[i].xyz >> :
             i \in RowsOfChain(chains_label[1]) \cup RowsOfChain(chains_label[2])}
     /\ \A l \in Range(chains_label) :
          Placed(chains[l]) =
            {<< sql[i].resName, sql[i].resSeq, sql[i].chainID, sql[i].xyz >> :
               i \in RowsOfChain(l)}
     /\ calcs = << "complex", chains_label[1], chains_label[2] >>

\* C10: after get_structure the complex holds every atom of the source, in
\* table order and whatever its chain (under the names of the file for a
\* file path, under the first character of the name for in-memory records),
\* each per-chain set holds exactly the atoms of its chain in table order,
\* and one SASA result is computed and cached for each of the three sets,
\* with one area per atom.
C10_StructuresBuilt ==
  "complex" \in attrs =>
     /\ Len(complex) = Len(sql)
     /\ \A i \in 1..Len(sql) :
          /\ << complex[i].resName, complex[i].resSeq, complex[i].chainID,
                complex[i].xyz >>
               = << sql[i].resName, sql[i].resSeq, sql[i].chainID, sql[i].xyz >>
          /\ complex[i].name = IF pdb_form = "str" THEN sql[i].name
                               ELSE << " ", sql[i].name[1] >>
     /\ DOMAIN chains = Range(chains_label)
     /\ DOMAIN result_chains = Range(chains_label)
     /\ \A l \in Range(chains_label) :
          LET OfChain(a) == a.chainID = l
              rows == SelectSeq(sql, OfChain)
          IN /\ Len(chains[l]) = Len(rows)
             /\ \A j \in 1..Len(rows) :
                  chains[l][j] = [rows[j] EXCEPT !.name = << " ", rows[j].name[1] >>]
             /\ Len(result_chains[l]) = Len(chains[l])
     /\ Len(result_complex) = Len(complex)
     /\ calcs = << "complex", chains_label[1], chains_label[2] >>

\* structures built from in-memory records of a source with a third chain:
\* the complex holds atoms of a chain that is not configured
C10_Witness ==
  /\ "complex" \in attrs
  /\ pdb_form = "list"
  /\ \E i \in 1..Len(complex) : complex[i].chainID \notin Range(chains_label)
  /\ \A l \in Range(chains_label) : Len(chains[l]) > 0

C12_ClosedWhenOver ==
  /\ ( /\ pc \in {"done", "raised"}
       /\ RowsOfChain("A") # {}
       /\ RowsOfChain("B") # {} ) => closed
  /\ closed => pc = "done" /\ featgrp = feature_data_xyz
                           /\ featgrp_raw = feature_data

(***************************************************************************)
(* C13.  get_contact_residue_sasa leaves the structure source, the three   *)
(* atom sets, the three cached SASA results and the chain labels as they   *)
(* are, whether it completes, warns or raises: a step that changes one of  *)
(* them is never a step of get_contact_residue_sasa.                       *)
(***************************************************************************)
C13_ContactCallKeepsStructures ==
  [][ << pdb_form, sql, chains_label, complex, result_complex, chains,
         result_chains >>'
        # << pdb_form, sql, chains_label, complex, result_complex, chains,
             result_chains >>
      => ~ \E cutoff \in Cutoffs : get_contact_residue_sasa(cutoff) ]_vars

\* a call that warned and then raised on built structures, which are still
\* the ones get_structure built
C13_Witness ==
  /\ StructureAttrs \subseteq attrs
  /\ warned # {}
  /\ exc.type = "IndexError"
  /\ bsa_data # EmptyDict
  /\ complex = BuildComplex(pdb_form, sql)
  /\ complex # << >>
  /\ result_complex = Calc(complex)
  /\ \A l \in Range(chains_label) : result_chains[l] = Calc(chains[l])

(***************************************************************************)
(* C14.  _kfold_index divides the list it is given into k folds: every     *)
(* index of the list is in the validation set of exactly one round, and in *)
(* every round the training set and the validation set are disjoint and    *)
(* hold the whole list between them.  The lists taken here are at least k  *)
(* long.                                                                   *)
(***************************************************************************)
C14_EveryIndexInOneFold ==
  (tpc = "done" /\ Len(index_train \o index_valid) >= kfold[1]) =>
    LET k == kfold[1]
        given == Range(index_train \o index_valid)
    IN /\ \A x \in given :
            Cardinality({r \in 1..k : x \in Range(indexes_valid[r])}) = 1
       /\ \A r \in 1..k :
            /\ Range(indexes_train[r]) \cap Range(indexes_valid[r]) = {}
            /\ Range(indexes_train[r]) \cup Range(indexes_valid[r]) = given

(***************************************************************************)
(* C15.  The three arrays of _divide_dataset are pairwise disjoint and     *)
(* hold each index 0..n-1 exactly once, in the order of the (shuffled)     *)
(* index array; the training array has int(n*divide_set[0]) entries and    *)
(* the validation array int(n*divide_set[1]), each cut short where the     *)
(* array ends; the test array has all the rest.                            *)
(***************************************************************************)
Divided == tpc \in {"_kfold_index", "done"}

PartitionOfIndices ==
  LET all == index_train \o index_valid \o index_test
  IN /\ Len(all) = ntot
     /\ Range(all) = 0..(ntot - 1)
     /\ Range(index_train) \cap Range(index_valid) = {}
     /\ Range(index_train) \cap Range(index_test) = {}
     /\ Range(index_valid) \cap Range(index_test) = {}

\* C15 as stated: the sizes are int(n*divide_set[0]) and int(n*divide_set[1])
\* for every divide_set; the ones taken here ask for a part of the data set
\* in each of the two arrays
C15_SizesAsRequested ==
  (Divided /\ 0 < ntrain /\ ntrain < ntot /\ 0 < nvalid /\ nvalid < ntot) =>
    /\ PartitionOfIndices
    /\ Len(index_train) = ntrain
    /\ Len(index_valid) = nvalid

C15_DisjointCover ==
  Divided =>
    /\ PartitionOfIndices
    /\ Len(index_train) = Min(ntot, ntrain)
    /\ Len(index_valid) = Min(nvalid, ntot - Len(index_train))
    /\ Len(index_test) = ntot - Len(index_train) - Len(index_valid)
    /\ ntrain + nvalid <= ntot =>
          Len(index_train) = ntrain /\ Len(index_valid) = nvalid

\* a shuffled data set divided into three arrays that all hold something
C15_Witness ==
  /\ Divided
  /\ index_train # << >>
  /\ index_valid # << >>
  /\ index_test # << >>
  /\ Len(index_test) >= 2
  /\ index_train \o index_valid \o index_test # Arange(ntot)

====
